---- MODULE Spec2Model ----
(***************************************************************************)
(* Model of streamlit_app2.py, the couples' retirement / goal planner.     *)
(*                                                                         *)
(* The program is a Streamlit script: every user interaction (a widget     *)
(* edit or a button click) re-executes the whole script top to bottom in a *)
(* fresh namespace; only st.session_state (the goal list) survives between *)
(* runs.  One action of the model is therefore one complete run of the     *)
(* script for one interaction: the goal form, the add handler, the remove  *)
(* handler, the net worth, the timeline and the snapshot, in script order. *)
(* An uncaught Python exception ends the run at the line that raised it;   *)
(* the outputs of the lines after it are then absent.                      *)
(*                                                                         *)
(* Money is in whole dollars and rates in whole percent.  Python floats    *)
(* are modelled in fixed point: a growth factor (1+r)^m is an integer      *)
(* scaled by Scale and truncated after every month, and the result of a    *)
(* float division is truncated to the dollar.                              *)
(***************************************************************************)
EXTENDS Integers, Sequences, FiniteSets

VARIABLES
    goals,             \* st.session_state.goals
    retirement_year,   \* widget, line 12
    monthly_income,    \* widget, line 13
    monthly_expenses,  \* widget, line 14
    rate_of_return,    \* widget, line 15 (percent)
    selected_year,     \* widget, line 178
    lastOp,            \* the interaction that triggered the last run
    message,           \* st.success / st.error shown by the last run's handler
    fault,             \* uncaught exception that ended the last run, with its line
    net_worth,         \* <<value>> written at line 172, <<>> when not reached
    timeline,          \* <<'Year' column>> plotted at line 175, <<>> when not reached
    snapshot           \* <<snapshot>> tabled at line 231, <<>> when not reached

vars == <<goals, retirement_year, monthly_income, monthly_expenses,
          rate_of_return, selected_year, lastOp, message, fault,
          net_worth, timeline, snapshot>>

----------------------------------------------------------------------------
(* Bounds and input domains *)

MaxGoals == 2

CurrentYear == 2026

\* Python's None, and the marker of a script variable that was never bound
None == -1

Names == {"", "a"}
Amounts == {0, 12000}
Rates == {0, 5}
Contributions == {0, 1000, 2000}
TargetYears == CurrentYear .. (CurrentYear + 2)
RetirementYears == (CurrentYear + 1) .. (CurrentYear + 2)
Incomes == {0, 6000}
Expenses == {0, 4000}

\* The goal form, lines 24-40: the mode decides which of the two last inputs exists
TargetYearForms ==
    [goal_name : Names, goal_amount : Amounts, interest_rate : Rates,
     goal_type : {"Target Year"}, contribution_amount : {None},
     target_year : TargetYears]

MonthlyContributionForms ==
    [goal_name : Names, goal_amount : Amounts, interest_rate : Rates,
     goal_type : {"Monthly Contribution"}, contribution_amount : Contributions,
     target_year : {None}]

Forms == TargetYearForms \cup MonthlyContributionForms

----------------------------------------------------------------------------
(* Arithmetic *)

\* fixed-point one; Scale * (rate / 100 / 12) = 1000 * rate is then exact
Scale == 1200 * 1000

\* One month of growth of the scaled factor f: f * (1 + rate/100/12)
compound(f, rate) == f + (f \div 1200) * rate + ((f % 1200) * rate) \div 1200

\* n months of growth of the scaled factor f
RECURSIVE compound_months(_, _, _)
compound_months(f, rate, n) ==
    IF n = 0 THEN f ELSE compound_months(compound(f, rate), rate, n - 1)

\* The scaled factors (1 + rate/100/12) ** (12 y) for y = 0 .. years, as a
\* sequence indexed from 1
RECURSIVE year_factors(_, _)
year_factors(rate, years) ==
    IF years = 0 THEN <<Scale>>
    ELSE LET fs == year_factors(rate, years - 1)
         IN  Append(fs, compound_months(fs[Len(fs)], rate, 12))

\* Table of the factors of every rate over ten years, computed once
GrowthTable == [rate \in Rates |-> year_factors(rate, 10)]

\* (1 + rate/100/12) ** months, scaled by Scale; the program only ever raises
\* to a whole number of years (lines 48, 73, 89, 204)
growth(rate, months) == GrowthTable[rate][(months \div 12) + 1]

\* monthly * ((1 + r) ** months - 1) / r  for r > 0, else monthly * months
annuity(monthly, rate, months) ==
    IF rate > 0
    THEN (monthly * ((growth(rate, months) - Scale) \div 100)) \div (rate * 10)
    ELSE monthly * months

\* int(np.ceil(np.log(1 + amount * r / contribution) / np.log(1 + r) / 12)):
\* the least whole number of years k with (1 + r) ** (12 k) >= 1 + amount * r / contribution
RECURSIVE years_to_goal(_, _, _, _)
years_to_goal(amount, rate, contribution, k) ==
    IF growth(rate, 12 * k) >= Scale + (amount * rate * 1000) \div contribution
    THEN k
    ELSE years_to_goal(amount, rate, contribution, k + 1)

RECURSIVE SumContributions(_)
SumContributions(gs) ==
    IF gs = <<>> THEN 0
    ELSE gs[1].monthly_contribution + SumContributions(Tail(gs))

GoalNames(gs) == {gs[i].goal_name : i \in 1..Len(gs)}

----------------------------------------------------------------------------
(* The goal form and the add / remove handlers *)

\* Lines 29-40: the script variable target_year after the form block.  In
\* Monthly Contribution mode it is bound only under the guard of line 31.
form_target_year(f) ==
    IF f.goal_type = "Monthly Contribution"
    THEN IF f.contribution_amount > 0 /\ f.goal_amount > 0
         THEN IF f.interest_rate > 0
              THEN CurrentYear + years_to_goal(f.goal_amount, f.interest_rate,
                                               f.contribution_amount, 0)
              ELSE CurrentYear + ((f.goal_amount \div f.contribution_amount) \div 12)
         ELSE None
    ELSE f.target_year

\* Variant of valid_goal that forgets the amount test
valid_goal_name_only(f) == f.goal_name # ""

\* Line 44: the validity test of the add handler
valid_goal(f) == f.goal_name # "" /\ f.goal_amount > 0

\* Line 48
months_to_goal(f) == 12 * (f.target_year - CurrentYear)

\* Lines 49-53, for months_to_goal # 0
monthly_contribution(f) ==
    IF f.interest_rate > 0
    THEN (f.goal_amount * f.interest_rate * 1000)
             \div (growth(f.interest_rate, months_to_goal(f)) - Scale)
    ELSE f.goal_amount \div months_to_goal(f)

\* Lines 58-63
new_goal(f) ==
    [goal_name |-> f.goal_name,
     goal_amount |-> f.goal_amount,
     monthly_contribution |->
         IF f.goal_type = "Monthly Contribution"
         THEN f.contribution_amount
         ELSE monthly_contribution(f),
     target_year |-> form_target_year(f)]

\* Lines 43-68: the add button handler
add_goal(gs, f) ==
    IF valid_goal(f)
    THEN IF f.goal_type = "Monthly Contribution"
         THEN IF form_target_year(f) = None
              THEN [goals |-> gs, message |-> "none", fault |-> "NameError:46"]
              ELSE [goals |-> Append(gs, new_goal(f)), message |-> "success",
                    fault |-> "none"]
         ELSE IF months_to_goal(f) = 0
              THEN [goals |-> gs, message |-> "none",
                    fault |-> IF f.interest_rate > 0
                              THEN "ZeroDivisionError:51"
                              ELSE "ZeroDivisionError:53"]
              ELSE [goals |-> Append(gs, new_goal(f)), message |-> "success",
                    fault |-> "none"]
    ELSE [goals |-> gs, message |-> "error", fault |-> "none"]

\* Line 165: the list comprehension of the remove handler
RECURSIVE without_name(_, _)
without_name(gs, name) ==
    IF gs = <<>> THEN <<>>
    ELSE IF gs[1].goal_name # name
         THEN <<gs[1]>> \o without_name(Tail(gs), name)
         ELSE without_name(Tail(gs), name)

\* Lines 163-167: the remove button handler
remove_goal(gs, goal_to_remove) ==
    IF goal_to_remove # ""
    THEN [goals |-> without_name(gs, goal_to_remove), message |-> "removed",
          fault |-> "none"]
    ELSE [goals |-> gs, message |-> "none", fault |-> "none"]

----------------------------------------------------------------------------
(* The calculations *)

\* Lines 71-81
calculate_retirement_net_worth_without_goals(ry, inc, exp, rate) ==
    annuity(inc - exp, rate, (ry - CurrentYear) * 12)

\* Lines 84-97
calculate_retirement_net_worth_with_goals(gs, ry, inc, exp, rate) ==
    annuity(inc - exp - SumContributions(gs), rate, (ry - CurrentYear) * 12)

\* Lines 104-109: the 'Year' and 'Event' columns of the timeline
plot_timeline(gs, ry) ==
    [Year  |-> <<CurrentYear, ry>> \o [i \in 1..Len(gs) |-> gs[i].target_year],
     Event |-> <<"Current Year", "Retirement Year">>
                   \o [i \in 1..Len(gs) |-> gs[i].goal_name]]

\* Variant of saved_for_goal that counts a goal as reached only after its
\* target year
saved_for_goal_after_target(goal, year) ==
    IF year > goal.target_year
    THEN goal.goal_amount
    ELSE LET months_elapsed == (year - CurrentYear) * 12
             contributed == goal.monthly_contribution * months_elapsed
         IN  IF goal.goal_amount < contributed THEN goal.goal_amount ELSE contributed

\* Lines 186-193
saved_for_goal(goal, year) ==
    IF year >= goal.target_year
    THEN goal.goal_amount
    ELSE LET months_elapsed == (year - CurrentYear) * 12
             contributed == goal.monthly_contribution * months_elapsed
         IN  IF goal.goal_amount < contributed THEN goal.goal_amount ELSE contributed

\* Lines 186-194
percent_saved(goal, year) ==
    IF year >= goal.target_year
    THEN 100
    ELSE (saved_for_goal(goal, year) * 100) \div goal.goal_amount

\* Lines 185-199: the dict is keyed by goal_name, so a later goal of the same
\* name overwrites an earlier one
goal_rows(gs, year) ==
    [n \in GoalNames(gs) |->
        LET last == CHOOSE i \in 1..Len(gs) :
                        /\ gs[i].goal_name = n
                        /\ \A j \in (i + 1)..Len(gs) : gs[j].goal_name # n
        IN  [saved |-> saved_for_goal(gs[last], year),
             percent |-> percent_saved(gs[last], year)]]

\* Lines 202-210
retirement_savings(gs, inc, exp, rate, year) ==
    annuity(inc - exp - SumContributions(gs), rate, (year - CurrentYear) * 12)

\* Line 214: the divisor of the retirement 'Saved (%)'
snapshot_divisor(ry, inc, exp, rate) ==
    calculate_retirement_net_worth_without_goals(ry, inc, exp, rate)

\* Lines 181-222, for snapshot_divisor # 0
calculate_financial_snapshot(gs, ry, inc, exp, rate, year) ==
    [goals |-> goal_rows(gs, year),
     retirement |->
        [saved |-> retirement_savings(gs, inc, exp, rate, year),
         percent |-> (retirement_savings(gs, inc, exp, rate, year) * 100)
                         \div snapshot_divisor(ry, inc, exp, rate)],
     income |-> inc,
     expenses |-> exp,
     to_goals |-> SumContributions(gs),
     to_retirement |-> inc - exp - SumContributions(gs)]

----------------------------------------------------------------------------
(* One run of the script *)

\* The result of a run's button handlers when no button was clicked
no_click(gs) == [goals |-> gs, message |-> "none", fault |-> "none"]

\* The exception, if any, that calculate_financial_snapshot raises: the
\* division of line 194 inside the goal loop, then the division of line 214
snapshot_fault(gs, ry, inc, exp, rate, year) ==
    IF \E i \in 1..Len(gs) : year < gs[i].target_year /\ gs[i].goal_amount = 0
    THEN "ZeroDivisionError:194"
    ELSE IF snapshot_divisor(ry, inc, exp, rate) = 0
         THEN "ZeroDivisionError:214"
         ELSE "none"

\* The exception that ends the run: the handler's, else the snapshot's
run_fault(h, ry, inc, exp, rate, year) ==
    IF h.fault # "none" THEN h.fault
    ELSE snapshot_fault(h.goals, ry, inc, exp, rate, year)

\* Lines 169-172
run_net_worth(h, ry, inc, exp, rate) ==
    IF h.fault # "none" THEN <<>>
    ELSE <<calculate_retirement_net_worth_with_goals(h.goals, ry, inc, exp, rate)>>

\* Lines 174-175
run_timeline(h, ry) ==
    IF h.fault # "none" THEN <<>> ELSE <<plot_timeline(h.goals, ry)>>

\* Lines 224-231
run_snapshot(h, ry, inc, exp, rate, year) ==
    IF run_fault(h, ry, inc, exp, rate, year) # "none" THEN <<>>
    ELSE <<calculate_financial_snapshot(h.goals, ry, inc, exp, rate, year)>>

\* The whole script, lines 7-231, for the widget values given and the result
\* h of the button handlers
Run(op, h, ry, inc, exp, rate, year) ==
    /\ lastOp' = op
    /\ goals' = h.goals
    /\ message' = h.message
    /\ retirement_year' = ry
    /\ monthly_income' = inc
    /\ monthly_expenses' = exp
    /\ rate_of_return' = rate
    /\ selected_year' = year
    /\ fault' = run_fault(h, ry, inc, exp, rate, year)
    /\ net_worth' = run_net_worth(h, ry, inc, exp, rate)
    /\ timeline' = run_timeline(h, ry)
    /\ snapshot' = run_snapshot(h, ry, inc, exp, rate, year)

\* The first run of a session: every widget at its default value
Init ==
    /\ lastOp = "load"
    /\ goals = <<>>
    /\ message = "none"
    /\ retirement_year = CurrentYear + 1
    /\ monthly_income = 0
    /\ monthly_expenses = 0
    /\ rate_of_return = 5
    /\ selected_year = CurrentYear
    /\ fault = run_fault(no_click(<<>>), CurrentYear + 1, 0, 0, 5, CurrentYear)
    /\ net_worth = run_net_worth(no_click(<<>>), CurrentYear + 1, 0, 0, 5)
    /\ timeline = run_timeline(no_click(<<>>), CurrentYear + 1)
    /\ snapshot = run_snapshot(no_click(<<>>), CurrentYear + 1, 0, 0, 5, CurrentYear)

\* The goals whose target year is no later than year y
RECURSIVE due_by(_, _)
due_by(gs, y) ==
    IF gs = <<>> THEN <<>>
    ELSE IF gs[1].target_year <= y
         THEN <<gs[1]>> \o due_by(Tail(gs), y)
         ELSE due_by(Tail(gs), y)

\* Variant of SetRetirementYear that drops the goals due after the new
\* retirement year
SetRetirementYearPruning ==
    \E y \in RetirementYears \ {retirement_year} :
        Run("retirement_year", no_click(due_by(goals, y)), y, monthly_income,
            monthly_expenses, rate_of_return, CurrentYear)

\* Line 12.  The bounds of the snapshot-year widget (line 178) depend on
\* retirement_year, so a new retirement year resets that widget to its default.
SetRetirementYear ==
    \E y \in RetirementYears \ {retirement_year} :
        Run("retirement_year", no_click(goals), y, monthly_income,
            monthly_expenses, rate_of_return, CurrentYear)

\* Line 13
SetMonthlyIncome ==
    \E v \in Incomes \ {monthly_income} :
        Run("monthly_income", no_click(goals), retirement_year, v,
            monthly_expenses, rate_of_return, selected_year)

\* Line 14
SetMonthlyExpenses ==
    \E v \in Expenses \ {monthly_expenses} :
        Run("monthly_expenses", no_click(goals), retirement_year,
            monthly_income, v, rate_of_return, selected_year)

\* Line 15
SetRateOfReturn ==
    \E v \in Rates \ {rate_of_return} :
        Run("rate_of_return", no_click(goals), retirement_year,
            monthly_income, monthly_expenses, v, selected_year)

\* Line 178
SelectYear ==
    \E y \in (CurrentYear .. retirement_year) \ {selected_year} :
        Run("selected_year", no_click(goals), retirement_year,
            monthly_income, monthly_expenses, rate_of_return, y)

\* Lines 23-68: the form is filled in and "Add goal to timeline" is clicked
AddGoalWith(f) ==
    Run("add", add_goal(goals, f), retirement_year, monthly_income,
        monthly_expenses, rate_of_return, selected_year)

AddGoal ==
    /\ Len(goals) < MaxGoals
    /\ \E f \in Forms : AddGoalWith(f)

\* Lines 160-167: a goal is selected in the sidebar and "Remove Goal" is clicked
RemoveGoal ==
    \E goal_to_remove \in {""} \cup GoalNames(goals) :
        Run("remove", remove_goal(goals, goal_to_remove), retirement_year,
            monthly_income, monthly_expenses, rate_of_return, selected_year)

Next ==
    \/ SetRetirementYear
    \/ SetMonthlyIncome
    \/ SetMonthlyExpenses
    \/ SetRateOfReturn
    \/ SelectYear
    \/ AddGoal
    \/ RemoveGoal

Spec == Init /\ [][Next]_vars

----------------------------------------------------------------------------
(* Properties *)

Last(seq) == seq[Len(seq)]

CeilDiv(a, b) == (a + b - 1) \div b

WidgetOps == {"retirement_year", "monthly_income", "monthly_expenses",
              "rate_of_return", "selected_year"}

\* The years of the projection, CurrentYear .. retirement_year, in which a
\* goal is still active: those up to and including its target year
deducted_years(goal, ry) ==
    Cardinality({y \in CurrentYear..ry : y <= goal.target_year})

RECURSIVE deducted_until_target(_, _)
deducted_until_target(gs, ry) ==
    IF gs = <<>> THEN 0
    ELSE 12 * gs[1].monthly_contribution * deducted_years(gs[1], ry)
             + deducted_until_target(Tail(gs), ry)

\* C1: in the retirement projection a goal's monthly contribution is deducted
\* for the projected years up to and including its target year and is
\* redirected into retirement savings for the years after it.  At a zero
\* retirement rate the goals therefore lower the projected net worth (net
\* worth without goals minus net worth with goals) by no more than 12
\* contributions for each projected year up to the goal's target year, and by
\* nothing for the years target_year+1 .. retirement_year.
C1_ContributionRedirectedAfterTargetYear ==
    (rate_of_return = 0 /\ net_worth # <<>>) =>
        calculate_retirement_net_worth_without_goals(
            retirement_year, monthly_income, monthly_expenses, rate_of_return)
          - net_worth[1]
        <= deducted_until_target(goals, retirement_year)

\* C2: with a zero retirement rate and no goals the projected net worth is
\* (monthly_income - monthly_expenses) * 12 * (retirement_year - CurrentYear + 1):
\* the years CurrentYear .. retirement_year are all counted.
C2_ZeroRateCountsYearsInclusive ==
    (rate_of_return = 0 /\ goals = <<>> /\ net_worth # <<>>) =>
        net_worth[1] = (monthly_income - monthly_expenses) * 12
                           * (retirement_year - CurrentYear + 1)

\* C3: an add in Target Year mode with target_year <= CurrentYear is rejected
\* with a message: no goal is appended and neither division of the
\* amortization formula (lines 51 and 53) is evaluated with a zero divisor.
C3_PastTargetYearRejected ==
    [][\A f \in TargetYearForms :
          (f.target_year <= CurrentYear /\ AddGoalWith(f)) =>
              /\ message' = "error"
              /\ goals' = goals
              /\ fault' \notin {"ZeroDivisionError:51", "ZeroDivisionError:53"}]_vars

\* C4: in Monthly Contribution mode at a zero goal rate the added goal's
\* target year is CurrentYear + ceil(months / 12), where
\* months = floor(goal_amount / contribution_amount).
C4_ZeroRateTargetYearIsCeiling ==
    [][\A f \in MonthlyContributionForms :
          (/\ f.interest_rate = 0
           /\ f.goal_name # ""
           /\ f.goal_amount > 0
           /\ f.contribution_amount > 0
           /\ AddGoalWith(f)) =>
              /\ message' = "success"
              /\ Last(goals').target_year =
                     CurrentYear
                         + CeilDiv(f.goal_amount \div f.contribution_amount, 12)]_vars

\* C5: after any sequence of adds and removes the goal names in the list are
\* non-empty and pairwise distinct.
C5_GoalNamesUnique ==
    \A i, j \in 1..Len(goals) :
        /\ goals[i].goal_name # ""
        /\ (i # j => goals[i].goal_name # goals[j].goal_name)

\* C6: an add in Monthly Contribution mode with a contribution <= 0, a goal
\* amount > 0 and a name is rejected with a message: no goal is appended and
\* the run is not ended by the unbound target_year of line 46.
C6_ZeroContributionRejected ==
    [][\A f \in MonthlyContributionForms :
          (/\ f.contribution_amount <= 0
           /\ f.goal_amount > 0
           /\ f.goal_name # ""
           /\ AddGoalWith(f)) =>
              /\ message' = "error"
              /\ goals' = goals
              /\ fault' # "NameError:46"]_vars

\* C7: an add with an empty goal name or a goal amount <= 0, in either mode,
\* shows the error message and leaves the goal list exactly as it was: every
\* step either does so or is no add of such a form.
C7_InvalidInputRejected ==
    [][\/ (message' = "error" /\ goals' = goals)
       \/ ~ \E f \in Forms :
                /\ (f.goal_name = "" \/ f.goal_amount <= 0)
                /\ AddGoalWith(f)]_vars

\* C7 witness: an add was rejected with the error message while goals exist
C7_Witness ==
    lastOp = "add" /\ message = "error" /\ fault = "none" /\ Len(goals) > 0

\* C8: only add and remove change the goal list: a run triggered by a change
\* of retirement year, income, expenses, rate or snapshot year, with its net
\* worth, timeline and snapshot computations, leaves the list as it was.
C8_OnlyAddRemoveChangeGoals ==
    [][lastOp' \notin {"add", "remove"} => goals' = goals]_vars

\* C8 witness: a widget-triggered run computed the net worth, the timeline and
\* the snapshot over a full goal list
C8_Witness ==
    /\ lastOp \in WidgetOps
    /\ Len(goals) = MaxGoals
    /\ net_worth # <<>>
    /\ timeline # <<>>
    /\ snapshot # <<>>

C10_SnapshotNeverDividesByZero ==
    \A y \in CurrentYear..retirement_year :
        snapshot_fault(goals, retirement_year, monthly_income, monthly_expenses,
                       rate_of_return, y) = "none"

====
